---- MODULE Spec2Model ----
(***************************************************************************)
(* interface2avro (src/main.rs): TypeScript interface declarations are     *)
(* extracted into JSON schema entries (get_schema / get_prop_type) and the *)
(* first entry is merged with the entries its fields name (merger).        *)
(*                                                                         *)
(* Strings are sequences of one-character strings, so that the first       *)
(* character, the containment of '|', split and trim are computed.         *)
(* A serde_json Value is a record with a tag and one payload per shape.    *)
(***************************************************************************)
EXTENDS Integers, Sequences, FiniteSets, TLC

VARIABLES
    pc,                 \* position of the run that is modelled
    schemas,            \* merger: the argument, Vec<Value>
    candidate_schema,   \* merger: the value being built and returned
    i,                  \* merger: loop index of enumerate(), 0-based
    c_node,             \* get_prop_type: the children of the node
    k,                  \* get_prop_type: number of children consumed
    pptype,             \* get_prop_type: Option<Value>
    ppvalue,            \* get_prop_type: Option<String>
    prop                \* get_prop_type: the returned Option<Value>

vars == <<pc, schemas, candidate_schema, i, c_node, k, pptype, ppvalue, prop>>

mergerVars == <<schemas, candidate_schema, i>>
propVars == <<c_node, k, pptype, ppvalue, prop>>

----------------------------------------------------------------------------
(* Bounds *)

MaxEntries == 3      \* longest list of Schema Entries given to merger
MaxFields == 2       \* most fields of the root entry
MaxChildren == 3     \* most children of a field-declaration node
MaxTypeTexts == 1    \* most type texts after the ':' token of a ':'-marked child
MaxTypeLen == 5      \* longest type text of a well-formed field declaration

----------------------------------------------------------------------------
(* serde_json::Value *)

NoObj == <<>>

JNull == [tag |-> "Null", str |-> <<>>, arr |-> <<>>, obj |-> NoObj]

JString(s) == [tag |-> "String", str |-> s, arr |-> <<>>, obj |-> NoObj]

JArray(a) == [tag |-> "Array", str |-> <<>>, arr |-> a, obj |-> NoObj]

JObject(o) == [tag |-> "Object", str |-> <<>>, arr |-> <<>>, obj |-> o]

\* value["key"]: Null when the value is no object or lacks the key
Index(v, key) ==
    IF v.tag = "Object" /\ key \in DOMAIN v.obj THEN v.obj[key] ELSE JNull

\* Option<T>
None == [some |-> FALSE, v |-> JNull]

Some(x) == [some |-> TRUE, v |-> x]

\* v[n] on a Vec: an index out of range panics
VecIndexDefault(v, n) ==
    IF n < Len(v) THEN [ok |-> TRUE, val |-> v[n + 1]]
    ELSE [ok |-> TRUE,
          val |-> JObject([type |-> JString(<<"R","e","c","o","r","d">>),
                           fields |-> JArray(<<>>)])]

VecIndex(v, n) ==
    IF n < Len(v) THEN [ok |-> TRUE, val |-> v[n + 1]]
    ELSE [ok |-> FALSE, val |-> JNull]

----------------------------------------------------------------------------
(* Texts *)

sRecord == <<"R","e","c","o","r","d">>
sString == <<"s","t","r","i","n","g">>
sNumber == <<"n","u","m","b","e","r">>
sNull == <<"n","u","l","l">>
sDate == <<"D","a","t","e">>
sBoolean == <<"b","o","o","l","e","a","n">>
sPerson == <<"P","e","r","s","o","n">>
sLocation == <<"L","o","c","a","t","i","o","n">>
sAddress == <<"A","d","d","r","e","s","s">>
sGhost == <<"G","h","o","s","t">>

----------------------------------------------------------------------------
(* merger *)

base_types == <<sString, sNumber, sNull, sDate, sBoolean>>

\* base_types.iter().find(|&x| **x == entry["type"]).is_some()
IsBaseTypeNever(ty) == FALSE

IsBaseType(ty) ==
    \E n \in 1..Len(base_types) : ty.tag = "String" /\ ty.str = base_types[n]

\* schemas.iter().find(|&x| x["name"] == entry["type"]): the first match
FindSubSchemaMember(ss, ty) ==
    LET hit(x) == \/ Index(x, "name") = ty
                  \/ \E m \in 1..Len(ty.arr) : Index(x, "name") = ty.arr[m]
        found == {j \in 1..Len(ss) : hit(ss[j])}
    IN IF found = {} THEN None
       ELSE Some(ss[CHOOSE j \in found : \A j2 \in found : j <= j2])

FindSubSchemaLast(ss, ty) ==
    LET found == {j \in 1..Len(ss) : Index(ss[j], "name") = ty}
    IN IF found = {} THEN None
       ELSE Some(ss[CHOOSE j \in found : \A j2 \in found : j >= j2])

FindSubSchemaAny(ss, ty) ==
    LET found == {j \in 1..Len(ss) : Index(ss[j], "name") = ty}
    IN IF found # {} THEN Some(ss[CHOOSE j \in found : \A j2 \in found : j <= j2])
       ELSE IF ty.tag = "String" /\ Len(ss) > 0 THEN Some(ss[Len(ss)])
       ELSE None

FindSubSchema(ss, ty) ==
    LET found == {j \in 1..Len(ss) : Index(ss[j], "name") = ty}
    IN IF found = {} THEN None
       ELSE Some(ss[CHOOSE j \in found : \A j2 \in found : j <= j2])

\* sub_schema.unwrap().clone(): the entry as extracted
ResolvedClone(ss, sub) ==
    LET fs == Index(sub, "fields").arr
        res(f) == LET s == FindSubSchema(ss, Index(f, "type"))
                  IN IF s.some THEN s.v ELSE f
    IN JObject([n \in DOMAIN sub.obj |->
           IF n = "fields" THEN JArray([m \in 1..Len(fs) |-> res(fs[m])])
           ELSE sub.obj[n]])

SubSchemaClone(ss, sub) == sub

\* candidate_schema["fields"].as_array_mut().unwrap()[n] = sub
SetFieldType(cand, n, sub) ==
    LET fs == Index(cand, "fields").arr
        nf == JObject([name |-> Index(fs[n + 1], "name"), type |-> sub])
    IN JObject([cand.obj EXCEPT !["fields"] = JArray([fs EXCEPT ![n + 1] = nf])])

SetField(cand, n, sub) ==
    LET fs == Index(cand, "fields").arr
    IN JObject([cand.obj EXCEPT !["fields"] = JArray([fs EXCEPT ![n + 1] = sub])])

\* the fields iterated by the loop, schemas[0]["fields"].as_array().unwrap()
RootFields == Index(VecIndex(schemas, 0).val, "fields").arr

\* let mut candidate_schema = schemas[0].clone(), on a non-empty list
MergerBegin ==
    /\ pc = "merger_start"
    /\ VecIndex(schemas, 0).ok
    /\ candidate_schema' = VecIndex(schemas, 0).val
    /\ i' = 0
    /\ pc' = "merger_loop"
    /\ UNCHANGED <<schemas, propVars>>

\* schemas[0] on an empty list: index out of bounds, the thread panics
MergerPanic ==
    /\ pc = "merger_start"
    /\ ~VecIndex(schemas, 0).ok
    /\ pc' = "merger_panic"
    /\ UNCHANGED <<mergerVars, propVars>>

\* one iteration of the for loop over the root's fields
MergerStep ==
    /\ pc = "merger_loop"
    /\ i < Len(RootFields)
    /\ LET entry == RootFields[i + 1]
           sub_schema == FindSubSchema(schemas, Index(entry, "type"))
       IN candidate_schema' =
              IF ~IsBaseType(Index(entry, "type")) /\ sub_schema.some
              THEN SetField(candidate_schema, i, SubSchemaClone(schemas, sub_schema.v))
              ELSE candidate_schema
    /\ i' = i + 1
    /\ UNCHANGED <<pc, schemas, propVars>>

\* the loop is exhausted: candidate_schema is returned
MergerReturn ==
    /\ pc = "merger_loop"
    /\ i = Len(RootFields)
    /\ pc' = "merger_done"
    /\ UNCHANGED <<mergerVars, propVars>>

----------------------------------------------------------------------------
(* Inputs of merger: lists of Schema Entries as get_schema builds them *)

\* json!({"name": ..., "type": ...}) of get_prop_type
FieldEntry(n, t) == JObject([name |-> JString(n), type |-> t])

\* the map get_schema fills: "type", "name", "fields"
SchemaEntry(n, fs) ==
    JObject([type |-> JString(sRecord), name |-> JString(n), fields |-> JArray(fs)])

\* a declaration without a type_identifier child: no "name" key
NamelessEntry(fs) == JObject([type |-> JString(sRecord), fields |-> JArray(fs)])

PropNames == << <<"a","g","e">>, <<"l","o","c">>, <<"o","w","n">>, <<"k","i","n">> >>

PropName(n) == PropNames[((n - 1) % Len(PropNames)) + 1]

FieldTypes ==
    { JString(sString), JString(sLocation), JString(sPerson), JString(sGhost),
      JArray(<<JString(sString), JString(sNull)>>),
      JArray(<<JString(sLocation), JString(sPerson)>>) }

SeqsUpTo(S, n) == UNION {[1..m -> S] : m \in 0..n}

RootEntries ==
    { SchemaEntry(n, [m \in 1..Len(ts) |-> FieldEntry(PropName(m), ts[m])]) :
        n \in {sPerson, sLocation}, ts \in SeqsUpTo(FieldTypes, MaxFields) }

sCity == <<"c","i","t","y">>
sState == <<"s","t","a","t","e">>

DeclaredEntries ==
    { SchemaEntry(sLocation,
          << FieldEntry(sCity, JString(sString)),
             FieldEntry(<<"o","w","n">>, JString(sPerson)),
             FieldEntry(<<"a","d","d","r">>, JString(sAddress)),
             FieldEntry(<<"s","e","l","f">>, JString(sLocation)) >>),
      SchemaEntry(sLocation, << FieldEntry(sState, JString(sString)) >>),
      SchemaEntry(sAddress,
          << FieldEntry(sState, JString(sString)),
             FieldEntry(sCity, JString(sString)) >>),
      SchemaEntry(sString, << FieldEntry(sCity, JString(sNumber)) >>),
      SchemaEntry(sPerson, <<>>),
      NamelessEntry(<< FieldEntry(sCity, JString(sString)) >>) }

SchemaLists ==
    {<<>>} \cup
    { <<r>> \o tl : r \in RootEntries, tl \in SeqsUpTo(DeclaredEntries, MaxEntries - 1) }

IdleMerger ==
    /\ schemas = <<>>
    /\ candidate_schema = JNull
    /\ i = 0

IdleProp ==
    /\ c_node = <<>>
    /\ k = 0
    /\ pptype = None
    /\ ppvalue = None
    /\ prop = None

InitMerger ==
    /\ pc = "merger_start"
    /\ schemas \in SchemaLists
    /\ candidate_schema = JNull
    /\ i = 0
    /\ IdleProp

----------------------------------------------------------------------------
(* get_prop_type *)

WhiteSpace == {" ", "\t", "\n", "\r"}

\* typed.contains('|')
Contains(s, c) == \E n \in 1..Len(s) : s[n] = c

\* typed.split('|'): the segments between the separators, empty ones kept
Split(s, c) ==
    LET F[n \in 0..Len(s)] ==
            IF n = 0 THEN << <<>> >>
            ELSE IF s[n] = c THEN Append(F[n - 1], <<>>)
            ELSE [F[n - 1] EXCEPT ![Len(F[n - 1])] = Append(@, s[n])]
    IN F[Len(s)]

RECURSIVE TrimStart(_)
TrimStart(s) ==
    IF s # <<>> /\ Head(s) \in WhiteSpace THEN TrimStart(Tail(s)) ELSE s

RECURSIVE TrimEnd(_)
TrimEnd(s) ==
    IF s # <<>> /\ s[Len(s)] \in WhiteSpace
    THEN TrimEnd(SubSeq(s, 1, Len(s) - 1)) ELSE s

\* c.trim()
TrimNone(s) == s

Trim(s) == TrimEnd(TrimStart(s))

\* the value stored in pptype for one type text (lines 121-129)
ClassifyType(t) ==
    IF Contains(t, "|")
    THEN LET col == Split(t, "|")
         IN JArray([m \in 1..Len(col) |-> JString(Trim(col[m]))])
    ELSE JString(t)

\* propd.chars().collect::<Vec<char>>()[0] == ':', defined on a non-empty text
BeginsWithColon(t) == t[1] = ":"

\* the inner for_each over the children of a ':'-marked child: every child
\* whose text is not ":" overwrites pptype
ScanTypeSide(old, ch) ==
    LET F[n \in 0..Len(ch)] ==
            IF n = 0 THEN old
            ELSE IF ch[n] # <<":">> THEN Some(ClassifyType(ch[n]))
            ELSE F[n - 1]
    IN F[Len(ch)]

\* one iteration of the outer for_each, on a child with a first character
PropChild ==
    /\ pc = "prop_loop"
    /\ k < Len(c_node)
    /\ LET node == c_node[k + 1]
       IN /\ Len(node.text) > 0
          /\ IF BeginsWithColon(node.text)
             THEN /\ pptype' = ScanTypeSide(pptype, node.children)
                  /\ UNCHANGED ppvalue
             ELSE /\ ppvalue' = Some(JString(node.text))
                  /\ UNCHANGED pptype
    /\ k' = k + 1
    /\ UNCHANGED <<pc, c_node, prop, mergerVars>>

\* a child with empty text: [0] on an empty Vec<char> panics
PropPanic ==
    /\ pc = "prop_loop"
    /\ k < Len(c_node)
    /\ Len(c_node[k + 1].text) = 0
    /\ pc' = "prop_panic"
    /\ UNCHANGED <<c_node, k, pptype, ppvalue, prop, mergerVars>>

\* after the loop: Some(json!({name, type})) when both are set, else None
PropReturn ==
    /\ pc = "prop_loop"
    /\ k = Len(c_node)
    /\ prop' = IF ppvalue.some /\ pptype.some
               THEN Some(JObject([name |-> ppvalue.v, type |-> pptype.v]))
               ELSE None
    /\ pc' = "prop_done"
    /\ UNCHANGED <<c_node, k, pptype, ppvalue, mergerVars>>

----------------------------------------------------------------------------
(* Inputs of get_prop_type: the children of a node, each with its text and *)
(* the texts of its own children                                           *)

Child(t, ch) == [text |-> t, children |-> ch]

RECURSIVE Concat(_)
Concat(ss) == IF ss = <<>> THEN <<>> ELSE Head(ss) \o Concat(Tail(ss))

\* a type_annotation: the ':' token followed by type texts
TypeSide(ts) == Child(Concat(<<<<":">>>> \o ts), <<<<":">>>> \o ts)

SmallTypeTexts == { <<"A">>, <<"A","|","B">> }

Children ==
    { Child(<<"a","g","e">>, <<>>), Child(<<"?">>, <<>>), Child(<<>>, <<>>),
      Child(<<":">>, <<>>) }
    \cup { TypeSide(ts) : ts \in SeqsUpTo(SmallTypeTexts, MaxTypeTexts) }

TypeChars == {"A", "B", " ", "|"}

TypeTexts == UNION {[1..m -> TypeChars] : m \in 1..MaxTypeLen}

\* any node shape, with few type texts
InitProp ==
    /\ pc = "prop_loop"
    /\ c_node \in SeqsUpTo(Children, MaxChildren)
    /\ k = 0 /\ pptype = None /\ ppvalue = None /\ prop = None
    /\ IdleMerger

\* the shape of a property signature `age: <type>`, with any type text
InitPropTyped ==
    /\ pc = "prop_loop"
    /\ c_node \in { << Child(<<"a","g","e">>, <<>>), TypeSide(<<t>>) >> : t \in TypeTexts }
    /\ k = 0 /\ pptype = None /\ ppvalue = None /\ prop = None
    /\ IdleMerger

----------------------------------------------------------------------------

Init == InitMerger \/ InitProp \/ InitPropTyped

Next ==
    \/ MergerBegin
    \/ MergerPanic
    \/ MergerStep
    \/ MergerReturn
    \/ PropChild
    \/ PropPanic
    \/ PropReturn

Spec == Init /\ [][Next]_vars

----------------------------------------------------------------------------
(* Vocabulary of the properties *)

MergerDone == pc = "merger_done"

MergerRunning == pc \in {"merger_loop", "merger_done"}

\* the root entry as extracted and its fields
Root == schemas[1]
In == Index(Root, "fields").arr

\* the fields of the value merger builds
Out == Index(candidate_schema, "fields").arr

TypeOf(f) == Index(f, "type")

BaseNames == {sString, sNumber, sNull, sDate, sBoolean}

IsBase(ty) == ty.tag = "String" /\ ty.str \in BaseNames

\* entry j is declared under the name ty
Names(j, ty) == ty.tag = "String" /\ Index(schemas[j], "name") = ty

Declared(ty) == \E j \in 1..Len(schemas) : Names(j, ty)

\* the matched entry: the first one declared under the name
Matched(ty) ==
    schemas[CHOOSE j \in 1..Len(schemas) :
                Names(j, ty) /\ \A j2 \in 1..(j - 1) : ~Names(j2, ty)]

\* a field the merger is to replace
Eligible(f) == TypeOf(f).tag = "String" /\ ~IsBase(TypeOf(f)) /\ Declared(TypeOf(f))

\* C1: when merger has returned, every root field whose type is a non-base
\* string naming a declared entry is, in the output, the first entry of that
\* name in full: an object of exactly type "Record", the entry's name and the
\* entry's fields in their order, and no longer the {name, type} field.
C1_Substitution ==
    MergerDone =>
        \A n \in 1..Len(In) :
            Eligible(In[n]) =>
                LET e == Matched(TypeOf(In[n]))
                IN /\ Out[n] = e
                   /\ DOMAIN Out[n].obj = {"type", "name", "fields"}
                   /\ Index(Out[n], "type") = JString(sRecord)
                   /\ Index(Out[n], "name") = Index(e, "name")
                   /\ Index(Out[n], "fields").arr = Index(e, "fields").arr
                   /\ Out[n] # In[n]

\* C1 witness: a returned merge that replaced a field by an entry of several
\* fields while a later entry of the same name exists
C1_Witness ==
    /\ MergerDone
    /\ \E n \in 1..Len(In) :
          /\ Eligible(In[n])
          /\ Len(Index(Out[n], "fields").arr) >= 2
          /\ \E j, j2 \in 1..Len(schemas) :
                j < j2 /\ Names(j, TypeOf(In[n])) /\ Names(j2, TypeOf(In[n]))
                /\ schemas[j] # schemas[j2]

\* a root field naming a second declared record: a match that is not the root
NamesSecond(f) == Eligible(f) /\ Matched(TypeOf(f)) # Root

C3_EmptyFails ==
    /\ MergerRunning => Len(schemas) > 0
    /\ pc = "merger_panic" => schemas = <<>> /\ candidate_schema = JNull

\* C3 witness: the panic on the empty list
C3_Witness == pc = "merger_panic" /\ Len(schemas) = 0

\* C4: a root field whose type is a base primitive string is never replaced,
\* at no point of the loop, whatever the entries are named.
C4_BasePrecedence ==
    MergerRunning =>
        \A n \in 1..Len(In) :
            IsBase(TypeOf(In[n])) =>
                Out[n] = In[n] /\ Index(Out[n], "type") = TypeOf(In[n])

\* C4 witness: a returned merge with a base-typed root field and an entry
\* declared under that base name
C4_Witness ==
    /\ MergerDone
    /\ \E n \in 1..Len(In) : IsBase(TypeOf(In[n])) /\ Declared(TypeOf(In[n]))

\* C5: a root field whose type is a union is never replaced, at no point of
\* the loop, even when its members name declared entries.
C5_UnionKept ==
    MergerRunning =>
        \A n \in 1..Len(In) : TypeOf(In[n]).tag = "Array" => Out[n] = In[n]

\* C5 witness: a returned merge with a union field all of whose members name
\* declared entries
C5_Witness ==
    /\ MergerDone
    /\ \E n \in 1..Len(In) :
          /\ TypeOf(In[n]).tag = "Array"
          /\ \A m \in 1..Len(TypeOf(In[n]).arr) : Declared(TypeOf(In[n]).arr[m])

\* C6: every replaced element of the output is an entry as extracted, so the
\* types of its fields are still strings or unions, also when they name a
\* declared entry; the loop index never passes the root's field count and
\* equals it on return.
C6_SingleLevel ==
    /\ MergerRunning => i <= Len(In)
    /\ MergerDone =>
          /\ i = Len(In)
          /\ \A n \in 1..Len(In) :
                Out[n] # In[n] =>
                    /\ \E j \in 1..Len(schemas) : Out[n] = schemas[j]
                    /\ \A m \in 1..Len(Index(Out[n], "fields").arr) :
                          TypeOf(Index(Out[n], "fields").arr[m]).tag \in {"String", "Array"}

\* C6 witness: a returned merge with a replaced element one of whose fields
\* names a declared entry (a third one, the root, or the element itself)
C6_Witness ==
    /\ MergerDone
    /\ \E n \in 1..Len(In) :
          /\ Out[n] # In[n]
          /\ \E m \in 1..Len(Index(Out[n], "fields").arr) :
                LET ty == TypeOf(Index(Out[n], "fields").arr[m])
                IN /\ Declared(ty)
                   /\ Matched(ty) # Root
                   /\ Matched(ty) # Out[n]
          /\ \E m \in 1..Len(Index(Out[n], "fields").arr) :
                LET ty == TypeOf(Index(Out[n], "fields").arr[m])
                IN Declared(ty) /\ Matched(ty) = Root
          /\ \E m \in 1..Len(Index(Out[n], "fields").arr) :
                LET ty == TypeOf(Index(Out[n], "fields").arr[m])
                IN Declared(ty) /\ Matched(ty) = Out[n]

\* C7: the output has the keys, name and kind of the root and as many fields;
\* every root field that is not eligible is unchanged at its index.
C7_Frame ==
    MergerDone =>
        /\ DOMAIN candidate_schema.obj = DOMAIN Root.obj
        /\ Index(candidate_schema, "name") = Index(Root, "name")
        /\ Index(candidate_schema, "type") = Index(Root, "type")
        /\ Len(Out) = Len(In)
        /\ \A n \in 1..Len(In) : ~Eligible(In[n]) => Out[n] = In[n]

\* C7 witness: a returned merge with a replaced field and, at another index,
\* a field whose non-base type string names no entry
C7_Witness ==
    /\ MergerDone
    /\ Len(schemas) >= 2
    /\ \E n, n2 \in 1..Len(In) :
          /\ Out[n] # In[n]
          /\ TypeOf(In[n2]).tag = "String"
          /\ ~IsBase(TypeOf(In[n2]))
          /\ ~Declared(TypeOf(In[n2]))

----------------------------------------------------------------------------
(* Properties of get_prop_type *)

PropDone == pc = "prop_done"

\* the children taken for the property name: text not beginning with ':'
NameChildren == {n \in 1..Len(c_node) : c_node[n].text = <<>> \/ c_node[n].text[1] # ":"}

\* the type texts: the children, other than the ':' token, of ':'-marked children
TypeTextAt ==
    UNION { { <<n, m>> : m \in {m \in 1..Len(c_node[n].children) :
                                    c_node[n].children[m] # <<":">>} } :
            n \in (1..Len(c_node)) \ NameChildren }

\* positions of the separator in a type text, and the m-th of them
Bars(t) == {n \in 1..Len(t) : t[n] = "|"}

NthBar(t, m) == CHOOSE b \in Bars(t) : Cardinality({b2 \in Bars(t) : b2 <= b}) = m

\* the m-th '|'-separated segment of t, by position
Segment(t, m) ==
    LET lo == IF m = 1 THEN 0 ELSE NthBar(t, m - 1)
        hi == IF m = Cardinality(Bars(t)) + 1 THEN Len(t) + 1 ELSE NthBar(t, m)
    IN SubSeq(t, lo + 1, hi - 1)

\* e is seg without its leading and trailing whitespace
IsTrimOf(e, seg) ==
    \E lo, hi \in 0..Len(seg) :
        /\ lo <= hi
        /\ e = SubSeq(seg, lo + 1, hi)
        /\ \A n \in 1..lo : seg[n] \in WhiteSpace
        /\ \A n \in (hi + 1)..Len(seg) : seg[n] \in WhiteSpace
        /\ e = <<>> \/ (e[1] \notin WhiteSpace /\ e[Len(e)] \notin WhiteSpace)

\* v is the value the claim gives to the type text t
IsTypeOf(v, t) ==
    IF Bars(t) = {}
    THEN v.tag = "String" /\ v.str = t
    ELSE /\ v.tag = "Array"
         /\ Len(v.arr) = Cardinality(Bars(t)) + 1
         /\ \A m \in 1..Len(v.arr) :
               v.arr[m].tag = "String" /\ IsTrimOf(v.arr[m].str, Segment(t, m))

\* C8: when get_prop_type has returned on a node with one type text, the
\* type it found is, for a text with '|', the array of the '|'-separated
\* segments, each trimmed, in order and with repetitions kept, and for a text
\* without '|' the string of the text; the Field Entry returned carries it.
C8_UnionParsing ==
    PropDone =>
        \A p \in TypeTextAt :
            TypeTextAt = {p} =>
                LET t == c_node[p[1]].children[p[2]]
                IN /\ pptype.some
                   /\ IsTypeOf(pptype.v, t)
                   /\ prop.some => Index(prop.v, "type") = pptype.v
                   /\ t \in { <<"A"," ","|"," ","B">>, <<"A","|","B">>, <<"A"," ","|","B">> }
                          => pptype.v.arr = << JString(<<"A">>), JString(<<"B">>) >>

\* C8 witness: the Field Entry returned for `age: A | A` and the like: a
\* union of two equal members, trimmed on both sides
C8_Witness ==
    /\ PropDone
    /\ prop.some
    /\ \E p \in TypeTextAt :
          /\ TypeTextAt = {p}
          /\ Len(c_node[p[1]].children[p[2]]) = 5
          /\ Cardinality(Bars(c_node[p[1]].children[p[2]])) = 1
    /\ Index(prop.v, "type").tag = "Array"
    /\ Index(prop.v, "type").arr = << JString(<<"A">>), JString(<<"A">>) >>

\* C9 as stated: the name of the returned Field Entry is the text of the
\* first child whose text does not begin with ':'.
C9_FirstNameWins ==
    PropDone /\ prop.some =>
        \E n \in NameChildren :
            /\ \A n2 \in NameChildren : n <= n2
            /\ Index(prop.v, "name") = JString(c_node[n].text)

\* C10 as stated: get_prop_type never fails, on any children; it returns a
\* Field Entry with name and type exactly when a child not beginning with
\* ':' gave the name and a ':'-marked child gave a type, and nothing else.
C10_SilentOmission ==
    /\ pc # "prop_panic"
    /\ PropDone =>
          /\ prop.some <=> (NameChildren # {} /\ TypeTextAt # {})
          /\ prop.some =>
                /\ Index(prop.v, "name").tag = "String"
                /\ Index(prop.v, "type").tag \in {"String", "Array"}

====
